---- MODULE Spec2Model ----
(***************************************************************************)
(* roBa-writer: the USB monitor, the firmware writer and the mode-driven   *)
(* sequencer of src/roBa_writer/__init__.py as one state machine.          *)
(*                                                                         *)
(* The program is single-threaded; the only other actor is the outside     *)
(* world (the bootloader volume being plugged, auto-mounted and vanishing),*)
(* which may move between any two steps of the program.                    *)
(*                                                                         *)
(* Time is counted in units of 0.5 s (one time.sleep(0.5)).                *)
(***************************************************************************)
EXTENDS Integers, Sequences, FiniteSets, TLC

None == "None"

\* Mount points a bootloader volume can get, and the USB block devices.
Paths == {"p1", "p2"}
Devices == {"d1", "d2"}
\* lsblk lists block devices in name order.
DevOrder == <<"d1", "d2">>

\* The timeouts of the two waits (defaults 60 s and 30 s), scaled down.
NewDriveTimeout == 3
RemovalTimeout == 2
\* The largest firmware image, in chunks of chunk_size bytes.
MaxChunks == 2

Modes == {"update_right_only", "update_both_without_reset", "reset_and_update_both"}
Roles == {"reset_file", "left_file", "right_file"}
\* The file a role resolves to when it is detected.
FileOf == [reset_file |-> "reset.uf2", left_file |-> "left.uf2", right_file |-> "right.uf2"]

\* What an I/O call can raise: three OSError kinds and a non-OSError Exception.
OSErrors == {"ENOENT", "EIO", "EACCES"}
Errors == OSErrors \cup {"Exception"}

VARIABLES
  devState,        \* device -> "absent" | "unmounted" | the path it is mounted at
  previous_drives, \* USBMonitor.previous_drives
  pc,              \* position of the program
  elapsed,         \* time.time() - start_time of the wait in progress
  detected,        \* FirmwareWriter.detected_firmware
  choice,          \* what the operator answers at the mode prompt (None: Exit)
  mode,            \* operation_mode of run
  side,            \* side argument of program_keyboard_side
  phase,           \* "reset" while in the with_reset block, then "main"
  drive,           \* local drive of program_keyboard_side
  wndRet,          \* value returned by wait_for_new_drive
  wfRet,           \* value returned by write_firmware
  wdrRet,          \* value returned by wait_for_drive_removal
  sideRet,         \* value returned by program_keyboard_side
  result,          \* value returned by run
  devList,         \* unmounted_devices of wait_for_new_drive
  devIdx,          \* position of the for loop over unmounted_devices
  mountPoint,      \* mount_point of wait_for_new_drive
  wfFile,          \* firmware_file argument of write_firmware
  srcChunks,       \* number of chunks src.read will deliver
  written,         \* chunks handed to dst.write
  copy_success,    \* local copy_success of write_firmware
  wfErr,           \* exception on its way to the handler of line 463
  exitCode,        \* exit status of the process (-1 while it runs)
  temp_dir,        \* FirmwareExtractor.temp_dir: None, "exists" or "removed"
  firmware_dir,    \* firmware_dir of cli: None, "dir" or "temp"
  passes,          \* history: <<side, outcome>> of each program_keyboard_side
  uf2_files,       \* uf2_files of _detect_firmware_files: the names, in glob order
  scan,            \* position of the for loop over uf2_files
  skip_reset,      \* KeyboardProgrammer.skip_reset of main.py (None: __init__.py)
  log,             \* history: the calls made by the sequencer, in order, each
                   \* <<kind, image, side, outcome>>
  obs              \* history: what the call in progress has observed

vars == <<devState, previous_drives, pc, elapsed, detected, choice, mode, side,
          phase, drive, wndRet, wfRet, wdrRet, sideRet, result, devList, devIdx,
          mountPoint, wfFile, srcChunks, written, copy_success, wfErr, log, obs,
          exitCode, temp_dir, firmware_dir, passes, uf2_files, scan, skip_reset>>

cliVars == <<exitCode, temp_dir, firmware_dir, passes>>
detVars == <<uf2_files, scan>>
optVars == <<skip_reset>>
envVars == <<devState>>
monVars == <<previous_drives, elapsed, devList, devIdx, mountPoint>>
seqVars == <<detected, choice, mode, side, phase, drive, sideRet, result>>
retVars == <<wndRet, wfRet, wdrRet>>
wfVars == <<wfFile, srcChunks, written, copy_success, wfErr>>

----------------------------------------------------------------------------
\* The outside world.

\* get_usb_drives: the mount points of the mounted removable/FAT partitions.
\* previous_drives and the result are only ever used through set() and `in`.
get_usb_drives == {devState[d] : d \in Devices} \cap Paths

\* The devices lsblk reports as USB, FAT and without a mount point.
RECURSIVE UnmountedFrom(_)
UnmountedFrom(i) ==
  IF i > Len(DevOrder) THEN <<>>
  ELSE (IF devState[DevOrder[i]] = "unmounted" THEN <<DevOrder[i]>> ELSE <<>>)
       \o UnmountedFrom(i + 1)

\* Path(drive_path).exists(): the mount point exists while the volume is mounted.
PathExists(p) == p \in get_usb_drives

Running == pc \notin {"done", "crashed", "cli_finally", "exited"}

\* The operator plugs a keyboard half in bootloader mode.
EnvPlug ==
  /\ Running
  /\ \E d \in Devices :
       /\ devState[d] = "absent"
       /\ devState' = [devState EXCEPT ![d] = "unmounted"]
  /\ UNCHANGED <<optVars, detVars, cliVars, monVars, seqVars, retVars, wfVars, pc, log, obs>>

\* The desktop's auto-mounter mounts a plugged volume.
EnvAutoMount ==
  /\ Running
  /\ \E d \in Devices, p \in Paths \ get_usb_drives :
       /\ devState[d] = "unmounted"
       /\ devState' = [devState EXCEPT ![d] = p]
  /\ UNCHANGED <<optVars, detVars, cliVars, monVars, seqVars, retVars, wfVars, pc, log, obs>>

\* The bootloader applies the image and reboots, or the operator unplugs.
EnvVanish ==
  /\ Running
  /\ \E d \in Devices :
       /\ devState[d] # "absent"
       /\ devState' = [devState EXCEPT ![d] = "absent"]
  /\ UNCHANGED <<optVars, detVars, cliVars, monVars, seqVars, retVars, wfVars, pc, log, obs>>

----------------------------------------------------------------------------
\* History.

NoObs == [sawNew |-> FALSE, mounted |-> FALSE, sawAbsent |-> FALSE,
          srcMissing |-> FALSE, destMissing |-> FALSE, probeFailed |-> FALSE,
          destOps |-> {}, vanished |-> FALSE, exit |-> "none", raised |-> "none",
          warned |-> FALSE, tried |-> <<>>, failedBefore |-> {}, said |-> {}]

\* Mutant: click.echo prints nothing.
Echo_Mut(o, msg) == o

\* click.echo of a message that tells why a step failed; msg names the message.
Echo(o, msg) == [o EXCEPT !.said = @ \cup {msg}]

\* The outcome of a call: "pending" until the sequencer has its return value,
\* then "ok" (a drive, True) or "fail" (None, False).
Outcome(ok) == IF ok THEN "ok" ELSE "fail"
Returned(l, ok) == [l EXCEPT ![Len(l)] = <<l[Len(l)][1], l[Len(l)][2], l[Len(l)][3], Outcome(ok)>>]
\* The calls alone, without side and outcome.
LogCalls == [i \in 1..Len(log) |-> <<log[i][1], log[i][2]>>]

Calls(kind) == {i \in 1..Len(log) : log[i][1] = kind}
nWnd == Cardinality(Calls("wnd"))
nWf == Cardinality(Calls("wf"))
nWdr == Cardinality(Calls("wdr"))
WritesOf(f) == {i \in Calls("wf") : log[i][2] = f}

----------------------------------------------------------------------------
\* USBMonitor.wait_for_new_drive

\* while time.time() - start_time < timeout
WithinTimeout(el, timeout) == el < timeout

\* Mutant: the previous drives are not subtracted.
NewDrives_Mut(current, previous) == current

\* new_drives = set(current_drives) - set(self.previous_drives)
NewDrives(current, previous) == current \ previous

\* click.echo, start_time = time.time()
WndStart ==
  /\ pc = "wnd_start"
  /\ elapsed' = 0
  /\ log' = Append(log, <<"wnd", None, side, "pending">>)
  /\ obs' = NoObs
  /\ pc' = "wnd_loop"
  /\ UNCHANGED <<optVars, detVars, cliVars, envVars, previous_drives, devList, devIdx, mountPoint, seqVars,
                 retVars, wfVars>>

\* The loop condition; when it fails, the timeout message and return None.
WndLoop ==
  /\ pc = "wnd_loop"
  /\ IF WithinTimeout(elapsed, NewDriveTimeout)
     THEN /\ pc' = "wnd_poll"
          /\ UNCHANGED <<wndRet, obs>>
     ELSE /\ wndRet' = None
          /\ pc' = "side_after_wnd"
          /\ obs' = Echo(obs, "Timeout: USB drive not detected")
  /\ UNCHANGED <<optVars, detVars, cliVars, envVars, monVars, seqVars, wfRet, wdrRet, wfVars, log>>

\* One look at the mounted drives: a new one is returned at once.
WndPoll ==
  /\ pc = "wnd_poll"
  /\ LET current_drives == get_usb_drives
         new_drives == NewDrives(current_drives, previous_drives)
     IN IF new_drives # {}
        THEN \E drv \in new_drives :
               /\ wndRet' = drv
               /\ previous_drives' = current_drives
               /\ pc' = "side_after_wnd"
               /\ obs' = [obs EXCEPT !.sawNew = TRUE]
        ELSE /\ pc' = "wnd_query"
             /\ UNCHANGED <<wndRet, previous_drives, obs>>
  /\ UNCHANGED <<optVars, detVars, cliVars, envVars, elapsed, devList, devIdx, mountPoint, seqVars, wfRet,
                 wdrRet, wfVars, log>>

\* get_unmounted_usb_devices: the lsblk query. "ok": the list; "handled":
\* CalledProcessError or JSONDecodeError, caught, the list is empty; "raised":
\* any other exception (lsblk missing: FileNotFoundError; an entry without a
\* name: KeyError), which no handler up to cli catches.
QueryOutcomes == {"ok", "handled", "raised"}

WndQuery ==
  /\ pc = "wnd_query"
  /\ \E outcome \in QueryOutcomes :
       CASE outcome = "ok" ->
              /\ devList' = UnmountedFrom(1)
              /\ devIdx' = 1
              /\ pc' = "wnd_mount"
         [] outcome = "handled" ->
              /\ devList' = <<>>
              /\ devIdx' = 1
              /\ pc' = "wnd_mount"
         [] outcome = "raised" ->
              /\ pc' = "crashed"
              /\ UNCHANGED <<devList, devIdx>>
  /\ UNCHANGED <<optVars, detVars, cliVars, envVars, previous_drives, elapsed, mountPoint, seqVars, retVars,
                 wfVars, log, obs>>

\* mount_device. "error": udisksctl fails (CalledProcessError or any other
\* exception), nothing is mounted, None; "parsed": mounted, the path read from
\* the "Mounted ... at ..." line; "fallback": mounted, the path read from lsblk;
\* "nopath": mounted, but neither way yields an existing path, None.
MountOutcomes == {"error", "parsed", "fallback", "nopath"}

\* Mutant: the candidates are taken from the end of the list.
CandidateAt_Mut(devices, i) == devices[Len(devices) + 1 - i]

\* for device in unmounted_devices: the i-th device of the loop
CandidateAt(devices, i) == devices[i]

\* Mutant: a mount_device that returned None ends the wait.
AfterFailedMount_Mut == "side_after_wnd"

\* if mount_point: is false: the for loop goes on with the next device
AfterFailedMount == "wnd_mount"

\* The for loop over unmounted_devices, one device per step; after the last
\* one, time.sleep(0.5).
WndMount ==
  /\ pc = "wnd_mount"
  /\ IF devIdx > Len(devList)
     THEN /\ elapsed' = elapsed + 1
          /\ devList' = <<>>
          /\ devIdx' = 1
          /\ pc' = "wnd_loop"
          /\ obs' = [obs EXCEPT !.tried = <<>>,
                                !.failedBefore = @ \cup {obs.tried[i] : i \in 1..Len(obs.tried)}]
          /\ UNCHANGED <<envVars, mountPoint>>
     ELSE LET device == CandidateAt(devList, devIdx) IN
          \E outcome \in MountOutcomes :
            IF outcome = "error"
            THEN /\ devIdx' = devIdx + 1
                 /\ pc' = AfterFailedMount
                 /\ obs' = [obs EXCEPT !.tried = Append(@, device)]
                 /\ UNCHANGED <<envVars, devList, elapsed, mountPoint>>
            ELSE /\ devState[device] = "unmounted"
                 /\ UNCHANGED devList
                 /\ \E mp \in Paths \ get_usb_drives :
                      /\ devState' = [devState EXCEPT ![device] = mp]
                      /\ IF outcome = "nopath"
                         THEN /\ devIdx' = devIdx + 1
                              /\ pc' = AfterFailedMount
                              /\ obs' = [obs EXCEPT !.tried = Append(@, device)]
                              /\ UNCHANGED mountPoint
                         ELSE /\ mountPoint' = mp
                              /\ pc' = "wnd_refresh"
                              /\ obs' = [obs EXCEPT !.mounted = TRUE,
                                                    !.tried = Append(@, device)]
                              /\ UNCHANGED devIdx
                 /\ UNCHANGED elapsed
  /\ UNCHANGED <<optVars, detVars, cliVars, previous_drives, seqVars, retVars, wfVars, log>>

\* Mutant: the mount point is added to the drives known before.
WndRefresh_Mut ==
  /\ pc = "wnd_refresh"
  /\ previous_drives' = previous_drives \cup {mountPoint}
  /\ wndRet' = mountPoint
  /\ pc' = "side_after_wnd"
  /\ UNCHANGED <<optVars, detVars, cliVars, envVars, elapsed, devList, devIdx, mountPoint, seqVars, wfRet,
                 wdrRet, wfVars, log, obs>>

\* After time.sleep(1): previous_drives = get_usb_drives(); return mount_point
WndRefresh ==
  /\ pc = "wnd_refresh"
  /\ previous_drives' = get_usb_drives
  /\ wndRet' = mountPoint
  /\ pc' = "side_after_wnd"
  /\ UNCHANGED <<optVars, detVars, cliVars, envVars, elapsed, devList, devIdx, mountPoint, seqVars, wfRet,
                 wdrRet, wfVars, log, obs>>

----------------------------------------------------------------------------
\* USBMonitor.wait_for_drive_removal

\* Mutant: the write goes to a fixed mount point, whatever drive was found.
WriteTarget_Mut == "p1"

\* The drive_path argument of write_firmware: the local drive of
\* _write_to_side, passed at both call sites.
WriteTarget == drive

\* The drive_path argument of wait_for_drive_removal: the same local.
WatchedPath == drive

\* Mutant: tests for an empty drive list instead of the absence of the path.
DriveRemoved_Mut(drive_path, drives) == drives = {}

\* drive_path not in self.get_usb_drives()
DriveRemoved(drive_path, drives) == drive_path \notin drives

WdrStart ==
  /\ pc = "wdr_start"
  /\ elapsed' = 0
  /\ log' = Append(log, <<"wdr", None, side, "pending">>)
  /\ obs' = NoObs
  /\ pc' = "wdr_loop"
  /\ UNCHANGED <<optVars, detVars, cliVars, envVars, previous_drives, devList, devIdx, mountPoint, seqVars,
                 retVars, wfVars>>

\* The loop condition; when it fails, return False.
WdrLoop ==
  /\ pc = "wdr_loop"
  /\ IF WithinTimeout(elapsed, RemovalTimeout)
     THEN /\ pc' = "wdr_poll"
          /\ UNCHANGED wdrRet
     ELSE /\ wdrRet' = FALSE
          /\ pc' = "side_after_wdr"
  /\ UNCHANGED <<optVars, detVars, cliVars, envVars, monVars, seqVars, wndRet, wfRet, wfVars, log, obs>>

\* One look at the mounted drives, then time.sleep(0.5) while the drive is there.
WdrPoll ==
  /\ pc = "wdr_poll"
  /\ obs' = [obs EXCEPT !.sawAbsent = @ \/ (WatchedPath \notin get_usb_drives)]
  /\ IF DriveRemoved(WatchedPath, get_usb_drives)
     THEN /\ pc' = "wdr_refresh"
          /\ UNCHANGED elapsed
     ELSE /\ elapsed' = elapsed + 1
          /\ pc' = "wdr_loop"
  /\ UNCHANGED <<optVars, detVars, cliVars, envVars, previous_drives, devList, devIdx, mountPoint, seqVars,
                 retVars, wfVars, log>>

\* Mutant: the removed drive is taken out of the drives known before.
WdrRefresh_Mut ==
  /\ pc = "wdr_refresh"
  /\ previous_drives' = previous_drives \ {drive}
  /\ wdrRet' = TRUE
  /\ pc' = "side_after_wdr"
  /\ UNCHANGED <<optVars, detVars, cliVars, envVars, elapsed, devList, devIdx, mountPoint, seqVars, wndRet,
                 wfRet, wfVars, log, obs>>

\* After time.sleep(1): previous_drives = get_usb_drives(); return True
WdrRefresh ==
  /\ pc = "wdr_refresh"
  /\ previous_drives' = get_usb_drives
  /\ wdrRet' = TRUE
  /\ pc' = "side_after_wdr"
  /\ UNCHANGED <<optVars, detVars, cliVars, envVars, elapsed, devList, devIdx, mountPoint, seqVars, wndRet,
                 wfRet, wfVars, log, obs>>

----------------------------------------------------------------------------
\* FirmwareWriter.write_firmware

\* str(e) of an OSError is "[Errno n] <strerror>", with ": '<file>'" appended
\* when the failing call had a path; StrError is the <strerror> part.
StrError == [ENOENT |-> "No such file or directory",
             EIO |-> "Input/output error",
             EACCES |-> "Permission denied"]

\* Mutant: the source check is missing.
SourceOk_Mut(srcExists) == TRUE

\* if not source_path.exists(): ... return False   (negated)
SourceOk(srcExists) == srcExists

\* Mutant: a failed probe is only reported, the write goes on.
ProbePassed_Mut(probeOk) == TRUE

\* The try block of the destination check ran to "Write test: successful".
ProbePassed(probeOk) == probeOk

\* Mutant: the assignment after the loop is missing.
AfterLoop_Mut(cs) == cs

\* copy_success = True after the while loop
AfterLoop(cs) == TRUE

\* Mutant: every OSError counts as the mount point disappearing.
HandlerSuccess_Mut(e) == e \in OSErrors

\* except (FileNotFoundError, OSError) as e: "No such file or directory" in str(e);
\* except Exception: copy_success = False
HandlerSuccess(e) == e \in OSErrors /\ StrError[e] = "No such file or directory"

\* The echo lines (which query the existence of source and destination), the
\* two existence checks and the stat of the source.
WfValidate ==
  /\ pc = "wf_validate"
  /\ log' = Append(log, <<"wf", wfFile, side, "pending">>)
  /\ wfErr' = "none"
  /\ written' = 0
  /\ srcChunks' = 0
  /\ copy_success' = FALSE
  /\ \E srcExists \in BOOLEAN :
     \E statOk \in {FALSE} \cup (IF srcExists THEN {TRUE} ELSE {}) :
       IF ~SourceOk(srcExists)
       THEN /\ wfRet' = FALSE
            /\ pc' = "side_after_wf"
            /\ obs' = Echo([NoObs EXCEPT !.srcMissing = ~srcExists,
                                         !.destOps = {"exists_echo"}],
                            "Source file not found")
       ELSE IF ~PathExists(WriteTarget)
       THEN /\ wfRet' = FALSE
            /\ pc' = "side_after_wf"
            /\ obs' = Echo([NoObs EXCEPT !.srcMissing = ~srcExists,
                                         !.destMissing = TRUE,
                                         !.destOps = {"exists_echo", "exists_check"}],
                            "Destination directory not found")
       ELSE /\ obs' = IF statOk
                      THEN [NoObs EXCEPT !.srcMissing = ~srcExists,
                                         !.destOps = {"exists_echo", "exists_check"}]
                      ELSE Echo([NoObs EXCEPT !.srcMissing = ~srcExists,
                                              !.destOps = {"exists_echo", "exists_check"}],
                                "Error getting source file stats")
            /\ IF statOk
               THEN /\ pc' = "wf_probe"
                    /\ UNCHANGED wfRet
               ELSE /\ wfRet' = FALSE
                    /\ pc' = "side_after_wf"
  /\ UNCHANGED <<optVars, detVars, cliVars, envVars, monVars, seqVars, wndRet, wdrRet, wfFile>>

\* disk_usage, stat, and the test_write.txt marker written and unlinked; any
\* exception: return False. Then the final check, which only lists the mount point.
WfProbe ==
  /\ pc = "wf_probe"
  /\ \E probeOk \in {FALSE} \cup (IF PathExists(WriteTarget) THEN {TRUE} ELSE {}) :
       /\ obs' = IF ProbePassed(probeOk)
                 THEN [obs EXCEPT !.probeFailed = ~probeOk,
                                  !.destOps = @ \cup {"probe"}]
                 ELSE Echo([obs EXCEPT !.probeFailed = ~probeOk,
                                       !.destOps = @ \cup {"probe"}],
                           "Destination check error")
       /\ IF ProbePassed(probeOk)
          THEN /\ pc' = "wf_open"
               /\ UNCHANGED wfRet
          ELSE /\ wfRet' = FALSE
               /\ pc' = "side_after_wf"
  /\ UNCHANGED <<optVars, detVars, cliVars, envVars, monVars, seqVars, wndRet, wdrRet, wfVars, log>>

\* copy_success = False; os.access; open(source), open(dest), stat of the source.
\* The destination cannot be opened under a mount point that is gone.
WfOpen ==
  /\ pc = "wf_open"
  /\ \E outcome \in Errors \cup (IF PathExists(WriteTarget) THEN {"ok"} ELSE {}) :
       IF outcome = "ok"
       THEN /\ \E n \in 0..MaxChunks : srcChunks' = n
            /\ obs' = [obs EXCEPT !.destOps = @ \cup {"open"}]
            /\ pc' = "wf_chunk"
            /\ UNCHANGED wfErr
       ELSE /\ wfErr' = outcome
            /\ obs' = [obs EXCEPT !.exit = "open"]
            /\ pc' = "wf_handler"
            /\ UNCHANGED srcChunks
  /\ UNCHANGED <<optVars, detVars, cliVars, envVars, monVars, seqVars, retVars, wfFile, written, copy_success,
                 log>>

\* One iteration of the while loop: read, break at end of file, write, then the
\* check that the mount point is still there.
WfChunk ==
  /\ pc = "wf_chunk"
  /\ IF written = srcChunks
     THEN /\ obs' = [obs EXCEPT !.exit = "eof"]
          /\ pc' = "wf_close"
          /\ UNCHANGED <<written, copy_success, wfErr>>
     ELSE \E outcome \in {"ok"} \cup Errors :
            IF outcome = "ok"
            THEN /\ written' = written + 1
                 /\ UNCHANGED wfErr
                 /\ IF ~PathExists(WriteTarget)
                    THEN /\ copy_success' = TRUE
                         /\ obs' = [obs EXCEPT !.destOps = @ \cup {"write"},
                                               !.vanished = TRUE,
                                               !.exit = "vanished"]
                         /\ pc' = "wf_close"
                    ELSE /\ obs' = [obs EXCEPT !.destOps = @ \cup {"write"}]
                         /\ UNCHANGED <<copy_success, pc>>
            ELSE /\ wfErr' = outcome
                 /\ obs' = [obs EXCEPT !.exit = "error"]
                 /\ pc' = "wf_unwind"
                 /\ UNCHANGED <<written, copy_success>>
  /\ UNCHANGED <<optVars, detVars, cliVars, envVars, monVars, seqVars, retVars, wfFile, srcChunks, log>>

\* After the loop, on either break: copy_success = True; then the two with
\* blocks are left, which closes (and flushes) the destination file and may raise.
WfClose ==
  /\ pc = "wf_close"
  /\ copy_success' = AfterLoop(copy_success)
  /\ \E outcome \in {"ok"} \cup Errors :
       IF outcome = "ok"
       THEN /\ pc' = "wf_result"
            /\ UNCHANGED wfErr
       ELSE /\ wfErr' = outcome
            /\ pc' = "wf_handler"
  /\ UNCHANGED <<optVars, detVars, cliVars, envVars, monVars, seqVars, retVars, wfFile, srcChunks, written,
                 log, obs>>

\* An exception of the loop leaves the with blocks: the files are closed, and an
\* exception raised by the close replaces the one in flight.
WfUnwind ==
  /\ pc = "wf_unwind"
  /\ \E outcome \in {"ok"} \cup Errors :
       wfErr' = IF outcome = "ok" THEN wfErr ELSE outcome
  /\ pc' = "wf_handler"
  /\ UNCHANGED <<optVars, detVars, cliVars, envVars, monVars, seqVars, retVars, wfFile, srcChunks, written,
                 copy_success, log, obs>>

\* The except clauses of the inner try.
WfHandler ==
  /\ pc = "wf_handler"
  /\ copy_success' = HandlerSuccess(wfErr)
  /\ obs' = [obs EXCEPT !.raised = wfErr]
  /\ pc' = "wf_result"
  /\ UNCHANGED <<optVars, detVars, cliVars, envVars, monVars, seqVars, retVars, wfFile, srcChunks, written,
                 wfErr, log>>

\* if copy_success: return True else: return False
WfResult ==
  /\ pc = "wf_result"
  /\ wfRet' = copy_success
  /\ pc' = "side_after_wf"
  /\ obs' = IF copy_success THEN obs ELSE Echo(obs, "UF2 file write failed")
  /\ UNCHANGED <<optVars, detVars, cliVars, envVars, monVars, seqVars, wndRet, wdrRet, wfVars, log>>

----------------------------------------------------------------------------
\* KeyboardProgrammer

\* Mutant: the missing files are only warned about.
DisplayOk_Mut(det) == TRUE

\* display_firmware_files: len(missing_files) == 0
DisplayOk(det) == \A r \in Roles : det[r] # None

\* The images a mode needs.
Required(m) ==
  CASE m = "update_right_only" -> {"right_file"}
    [] m = "update_both_without_reset" -> {"left_file", "right_file"}
    [] m = "reset_and_update_both" -> Roles

with_reset == mode = "reset_and_update_both"
SideFile == IF side = "left" THEN detected.left_file ELSE detected.right_file

\* run: display_firmware_files
RunDisplay ==
  /\ pc = "run_display"
  /\ IF DisplayOk(detected)
     THEN /\ pc' = "run_mode"
          /\ UNCHANGED <<result, obs>>
     ELSE /\ result' = FALSE
          /\ pc' = "done"
          /\ obs' = Echo(obs, "required file(s) not detected")
  /\ UNCHANGED <<optVars, detVars, cliVars, envVars, monVars, detected, choice, mode, side, phase, drive,
                 sideRet, retVars, wfVars, log>>

\* run: get_operation_mode, and the branch to the first side of the mode.
RunMode ==
  /\ pc = "run_mode"
  /\ IF choice = None
     THEN /\ result' = FALSE
          /\ pc' = "done"
          /\ obs' = Echo(obs, "Exiting...")
          /\ UNCHANGED <<mode, side>>
     ELSE /\ mode' = choice
          /\ side' = IF choice = "update_right_only" THEN "right" ELSE "left"
          /\ pc' = "side_begin"
          /\ UNCHANGED <<result, obs>>
  /\ UNCHANGED <<optVars, detVars, cliVars, envVars, monVars, detected, choice, phase, drive, sideRet,
                 retVars, wfVars, log>>

\* program_keyboard_side up to its first wait_for_new_drive.
SideBegin ==
  /\ pc = "side_begin"
  /\ IF SideFile = None
     THEN /\ sideRet' = FALSE
          /\ pc' = "run_side_ret"
          /\ obs' = Echo(obs, "keyboard firmware file not found")
          /\ UNCHANGED phase
     ELSE /\ phase' = IF with_reset THEN "reset" ELSE "main"
          /\ pc' = "wnd_start"
          /\ UNCHANGED <<sideRet, obs>>
  /\ UNCHANGED <<optVars, detVars, cliVars, envVars, monVars, detected, choice, mode, side, drive, result,
                 retVars, wfVars, log>>

\* Mutant: every value of wait_for_new_drive is taken for a drive.
NoDrive_Mut(d) == FALSE

\* if not drive:
NoDrive(d) == d = None

\* drive = wait_for_new_drive(); if not drive: return False; then the write of
\* the reset image (with its own None check) or of the side's image.
SideAfterWnd ==
  /\ pc = "side_after_wnd"
  /\ drive' = wndRet
  /\ wndRet' = None
  /\ elapsed' = 0
  /\ devList' = <<>>
  /\ devIdx' = 1
  /\ mountPoint' = None
  /\ IF NoDrive(wndRet) \/ (phase = "reset" /\ detected.reset_file = None)
     THEN /\ sideRet' = FALSE
          /\ pc' = "run_side_ret"
          /\ UNCHANGED wfFile
     ELSE /\ wfFile' = IF phase = "reset" THEN detected.reset_file ELSE SideFile
          /\ pc' = "wf_validate"
          /\ UNCHANGED sideRet
  /\ log' = Returned(log, wndRet # None)
  /\ obs' = IF ~NoDrive(wndRet) /\ phase = "reset" /\ detected.reset_file = None
            THEN Echo([obs EXCEPT !.failedBefore = {}, !.tried = <<>>],
                      "Reset firmware file not found")
            ELSE [obs EXCEPT !.failedBefore = {}, !.tried = <<>>]
  /\ UNCHANGED <<optVars, detVars, cliVars, envVars, previous_drives, detected, choice, mode, side, phase,
                 result, wfRet, wdrRet, srcChunks, written, copy_success, wfErr>>

\* Mutant: no write is ever taken to have failed.
WriteFailed_Mut(ret) == FALSE

\* if not self.firmware_writer.write_firmware(...)
WriteFailed(ret) == ~ret

\* if not write_firmware(...): return False; then wait_for_drive_removal(drive)
SideAfterWf ==
  /\ pc = "side_after_wf"
  /\ wfRet' = FALSE
  /\ wfFile' = None
  /\ srcChunks' = 0
  /\ written' = 0
  /\ copy_success' = FALSE
  /\ wfErr' = "none"
  /\ IF ~WriteFailed(wfRet)
     THEN /\ pc' = "wdr_start"
          /\ UNCHANGED sideRet
     ELSE /\ sideRet' = FALSE
          /\ pc' = "run_side_ret"
  /\ log' = Returned(log, wfRet)
  /\ UNCHANGED <<optVars, detVars, cliVars, envVars, monVars, detected, choice, mode, side, phase, drive,
                 result, wndRet, wdrRet, obs>>

\* Mutant: a removal wait that returned False ends the pass with a failure.
SideAfterWdr_Mut ==
  /\ pc = "side_after_wdr"
  /\ wdrRet' = FALSE
  /\ elapsed' = 0
  /\ IF ~wdrRet
     THEN /\ sideRet' = FALSE
          /\ pc' = "run_side_ret"
          /\ UNCHANGED phase
     ELSE IF phase = "reset"
     THEN /\ phase' = "main"
          /\ pc' = "wnd_start"
          /\ UNCHANGED sideRet
     ELSE /\ sideRet' = TRUE
          /\ pc' = "run_side_ret"
          /\ UNCHANGED phase
  /\ obs' = [obs EXCEPT !.warned = (phase = "reset" /\ ~wdrRet)]
  /\ log' = Returned(log, wdrRet)
  /\ UNCHANGED <<optVars, detVars, cliVars, envVars, previous_drives, devList, devIdx, mountPoint, detected,
                 choice, mode, side, drive, result, wndRet, wfRet, wfVars>>

\* After the reset image: a False from the wait prints "Failed to detect USB
\* reconnection. Please reconnect manually." and the pass goes on to the
\* side's image. After the side's image: the value of the wait is dropped,
\* nothing is printed for it, return True.
SideAfterWdr ==
  /\ pc = "side_after_wdr"
  /\ wdrRet' = FALSE
  /\ elapsed' = 0
  /\ IF phase = "reset"
     THEN /\ phase' = "main"
          /\ pc' = "wnd_start"
          /\ UNCHANGED sideRet
     ELSE /\ sideRet' = TRUE
          /\ pc' = "run_side_ret"
          /\ UNCHANGED phase
  /\ obs' = [obs EXCEPT !.warned = (phase = "reset" /\ ~wdrRet)]
  /\ log' = Returned(log, wdrRet)
  /\ UNCHANGED <<optVars, detVars, cliVars, envVars, previous_drives, devList, devIdx, mountPoint, detected,
                 choice, mode, side, drive, result, wndRet, wfRet, wfVars>>

\* Mutant: no side is ever taken to have failed.
SideFailed_Mut(ret) == FALSE

\* if not self.program_keyboard_side(...)
SideFailed(ret) == ~ret

\* run: a failed side ends the run; after the left side comes the right one.
RunSideRet ==
  /\ pc = "run_side_ret"
  /\ sideRet' = FALSE
  /\ drive' = None
  /\ phase' = None
  /\ IF SideFailed(sideRet)
     THEN /\ result' = FALSE
          /\ pc' = "done"
          /\ obs' = Echo(obs, "Firmware write process failed")
          /\ UNCHANGED side
     ELSE IF side = "right"
     THEN /\ result' = TRUE
          /\ pc' = "done"
          /\ UNCHANGED <<side, obs>>
     ELSE /\ side' = "right"
          /\ pc' = "side_begin"
          /\ UNCHANGED <<result, obs>>
  /\ passes' = Append(passes, <<side, Outcome(sideRet)>>)
  /\ UNCHANGED <<optVars, detVars, exitCode, temp_dir, firmware_dir, envVars, monVars, detected,
                 choice, mode, retVars, wfVars, log>>

----------------------------------------------------------------------------
\* FirmwareWriter._detect_firmware_files

\* The file names of the detection runs, spelled as sequences of characters
\* (the ".uf2" every name ends with is left out: it holds none of the
\* patterns). "s_reset-x" holds "reset" and also "_r"; "a_L_R" holds "_L" and "_R".
Spelling ==
  [ s_reset_x |-> <<"s", "_", "r", "e", "s", "e", "t", "-", "x">>,
    RESET     |-> <<"R", "E", "S", "E", "T">>,
    a_L_x     |-> <<"a", "_", "L", "-", "x">>,
    a_l       |-> <<"a", "-", "l">>,
    a_R_x     |-> <<"a", "_", "R", "-", "x">>,
    a_r       |-> <<"a", "-", "r">>,
    a_L_R     |-> <<"a", "_", "L", "_", "R">>,
    extra     |-> <<"e", "x", "t", "r", "a">> ]

\* re.IGNORECASE
Lower(c) ==
  CASE c = "L" -> "l" [] c = "R" -> "r" [] c = "E" -> "e"
    [] c = "S" -> "s" [] c = "T" -> "t" [] OTHER -> c

\* re.match(r'.*<pat>.*', filename, re.IGNORECASE): pat occurs somewhere in the name
Contains(name, pat) ==
  \E k \in 0..(Len(name) - Len(pat)) :
    \A m \in 1..Len(pat) : Lower(name[k + m]) = Lower(pat[m])

reset_patterns == {<<"r", "e", "s", "e", "t">>}
left_patterns == {<<"_", "L">>, <<"-", "L">>}
right_patterns == {<<"_", "R">>, <<"-", "R">>}
PatternsOf == [reset_file |-> reset_patterns, left_file |-> left_patterns,
               right_file |-> right_patterns]

\* any(re.match(pattern, filename, re.IGNORECASE) for pattern in <role>_patterns)
Matches(name, role) == \E pat \in PatternsOf[role] : Contains(Spelling[name], pat)

\* The order of the three tests in the loop body.
RoleOrder == <<"reset_file", "left_file", "right_file">>

\* Mutant: a role is given to every file that matches it, the last one stays.
Unresolved_Mut(f) == TRUE

\* not reset_file, not left_file, not right_file
Unresolved(f) == f = None

\* Mutant: the tests are made in the opposite order, right before left before
\* reset.
RoleFor_Mut(name, det) ==
  IF \E k \in 1..3 : Unresolved(det[RoleOrder[k]]) /\ Matches(name, RoleOrder[k])
  THEN RoleOrder[CHOOSE k \in 1..3 :
                   /\ Unresolved(det[RoleOrder[k]]) /\ Matches(name, RoleOrder[k])
                   /\ \A j \in (k + 1)..3 :
                        ~(Unresolved(det[RoleOrder[j]]) /\ Matches(name, RoleOrder[j]))]
  ELSE None

\* The role the loop body gives to a file, None when it gives none: the first
\* test of the three that succeeds assigns and continues.
RoleFor(name, det) ==
  IF \E k \in 1..3 : Unresolved(det[RoleOrder[k]]) /\ Matches(name, RoleOrder[k])
  THEN RoleOrder[CHOOSE k \in 1..3 :
                   /\ Unresolved(det[RoleOrder[k]]) /\ Matches(name, RoleOrder[k])
                   /\ \A j \in 1..(k - 1) :
                        ~(Unresolved(det[RoleOrder[j]]) /\ Matches(name, RoleOrder[j]))]
  ELSE None

\* One iteration of: for file_path in uf2_files
DetectFile ==
  /\ pc = "detect"
  /\ scan <= Len(uf2_files)
  /\ LET role == RoleFor(uf2_files[scan], detected)
     IN detected' = IF role = None THEN detected
                    ELSE [detected EXCEPT ![role] = uf2_files[scan]]
  /\ scan' = scan + 1
  /\ UNCHANGED <<optVars, uf2_files, pc, cliVars, envVars, monVars, choice, mode, side, phase,
                 drive, sideRet, result, retVars, wfVars, log, obs>>

\* return DetectedFirmware(reset_file, left_file, right_file)
DetectReturn ==
  /\ pc = "detect"
  /\ scan > Len(uf2_files)
  /\ pc' = "detect_ret"
  /\ UNCHANGED <<optVars, detVars, cliVars, envVars, monVars, seqVars, retVars, wfVars, log, obs>>

----------------------------------------------------------------------------
\* cli

\* prepare_firmware_dir. "dir": the path is a directory; "zip": a ZIP file,
\* extracted into a fresh temporary directory; "zip_bad": a ZIP file whose
\* extraction raises after the temporary directory was made; "other": neither.
PrepareOutcomes == {"dir", "zip", "zip_bad", "other"}

\* Mutant: the exit status is 0 whatever run returned.
ExitCodeOf_Mut(success) == 0

\* sys.exit(0 if success else 1)
ExitCodeOf(success) == IF success THEN 0 ELSE 1

\* firmware_dir = extractor.prepare_firmware_dir(); if not firmware_dir: sys.exit(1)
CliPrepare ==
  /\ pc = "cli_prepare"
  /\ \E outcome \in PrepareOutcomes :
       /\ temp_dir' = IF outcome \in {"zip", "zip_bad"} THEN "exists" ELSE temp_dir
       /\ firmware_dir' = CASE outcome = "dir" -> "dir"
                            [] outcome = "zip" -> "temp"
                            [] OTHER -> None
       /\ IF outcome \in {"dir", "zip"}
          THEN /\ pc' = "cli_construct"
               /\ UNCHANGED exitCode
          ELSE /\ exitCode' = 1
               /\ pc' = "cli_finally"
       /\ obs' = CASE outcome = "zip_bad" -> Echo(obs, "ZIP file extraction error")
                   [] outcome = "other" -> Echo(obs, "not a directory or ZIP file")
                   [] OTHER -> obs
  /\ UNCHANGED <<optVars, detVars, passes, envVars, monVars, detected, choice, mode, side, phase,
                 drive, sideRet, result, retVars, wfVars, log>>

\* KeyboardProgrammer(firmware_dir): the images were detected; USBMonitor takes
\* its first snapshot, then _check_udisksctl exits with 1 when udisksctl is missing.
CliConstruct ==
  /\ pc = "cli_construct"
  /\ previous_drives' = get_usb_drives
  /\ \E udisksctl \in BOOLEAN :
       IF udisksctl
       THEN /\ pc' = "run_display"
            /\ UNCHANGED <<exitCode, obs>>
       ELSE /\ exitCode' = 1
            /\ pc' = "cli_finally"
            /\ obs' = Echo(obs, "udisksctl not found")
  /\ UNCHANGED <<optVars, detVars, temp_dir, firmware_dir, passes, envVars, elapsed, devList, devIdx,
                 mountPoint, seqVars, retVars, wfVars, log>>

\* success = programmer.run(); sys.exit(0 if success else 1)
CliRunReturned ==
  /\ pc = "done"
  /\ exitCode' = ExitCodeOf(result)
  /\ pc' = "cli_finally"
  /\ UNCHANGED <<optVars, detVars, temp_dir, firmware_dir, passes, envVars, monVars, seqVars, retVars,
                 wfVars, log, obs>>

\* An exception nothing catches leaves cli through the finally clause; the
\* interpreter prints the traceback and exits with 1.
CliUncaught ==
  /\ pc = "crashed"
  /\ exitCode' = 1
  /\ obs' = [obs EXCEPT !.said = @ \cup {"Traceback"}]
  /\ pc' = "cli_finally"
  /\ UNCHANGED <<optVars, detVars, temp_dir, firmware_dir, passes, envVars, monVars, seqVars, retVars,
                 wfVars, log>>

\* Mutant: cleanup removes nothing.
cleanup_Mut(td) == td

\* FirmwareExtractor.cleanup: if self.temp_dir and os.path.exists(self.temp_dir):
\* shutil.rmtree(self.temp_dir)
cleanup(td) == IF td = "exists" THEN "removed" ELSE td

\* finally: extractor.cleanup(), which removes the temporary directory it made.
CliFinally ==
  /\ pc = "cli_finally"
  /\ temp_dir' = cleanup(temp_dir)
  /\ pc' = "exited"
  /\ UNCHANGED <<optVars, detVars, exitCode, firmware_dir, passes, envVars, monVars, seqVars, retVars,
                 wfVars, log, obs>>

----------------------------------------------------------------------------
Init ==
  /\ devState \in {s \in [Devices -> {"absent", "unmounted"} \cup Paths] :
                     \A d, e \in Devices : (d # e /\ s[d] \in Paths) => s[d] # s[e]}
  /\ previous_drives = {}
  /\ pc = "cli_prepare"
  /\ exitCode = -1
  /\ temp_dir = None
  /\ firmware_dir = None
  /\ passes = <<>>
  /\ uf2_files = <<>>
  /\ scan = 1
  /\ skip_reset = None
  /\ elapsed = 0
  /\ detected \in {f \in [Roles -> {None} \cup {FileOf[r] : r \in Roles}] :
                     \A r \in Roles : f[r] \in {None, FileOf[r]}}
  /\ choice \in Modes \cup {None}
  /\ mode = None
  /\ side = None
  /\ phase = None
  /\ drive = None
  /\ wndRet = None
  /\ wfRet = FALSE
  /\ wdrRet = FALSE
  /\ sideRet = FALSE
  /\ result = FALSE
  /\ devList = <<>>
  /\ devIdx = 1
  /\ mountPoint = None
  /\ wfFile = None
  /\ srcChunks = 0
  /\ written = 0
  /\ copy_success = FALSE
  /\ wfErr = "none"
  /\ log = <<>>
  /\ obs = NoObs

Next ==
  \/ EnvPlug \/ EnvAutoMount \/ EnvVanish
  \/ CliPrepare \/ CliConstruct \/ CliRunReturned \/ CliUncaught \/ CliFinally
  \/ RunDisplay \/ RunMode \/ SideBegin \/ SideAfterWnd \/ SideAfterWf
  \/ SideAfterWdr \/ RunSideRet
  \/ WndStart \/ WndLoop \/ WndPoll \/ WndQuery \/ WndMount \/ WndRefresh
  \/ WdrStart \/ WdrLoop \/ WdrPoll \/ WdrRefresh
  \/ WfValidate \/ WfProbe \/ WfOpen \/ WfChunk \/ WfClose \/ WfUnwind
  \/ WfHandler \/ WfResult

Spec == Init /\ [][Next]_vars
----------------------------------------------------------------------------
\* Properties.

\* C1: in wait_for_new_drive, a poll tick whose mounted-drive set holds a path
\* absent from previous_drives returns on that tick, with no mount attempted,
\* a path of current \ previous_drives, and leaves previous_drives = current.
C1_NewDriveReturnedOnTick ==
  [][(pc = "wnd_poll" /\ pc' # "wnd_poll" /\ get_usb_drives \ previous_drives # {})
       => /\ pc' = "side_after_wnd"
          /\ wndRet' \in get_usb_drives \ previous_drives
          /\ previous_drives' = get_usb_drives
          /\ devState' = devState]_vars

\* C1 witness: a new drive was returned while an older drive stayed mounted.
C1_Witness ==
  /\ pc = "side_after_wnd"
  /\ obs.sawNew
  /\ wndRet \in Paths
  /\ Cardinality(previous_drives) = 2

WndEnded == pc = "side_after_wnd" \/ (pc = "crashed" /\ log[Len(log)][1] = "wnd")

\* C2: wait_for_new_drive returns None only once the full timeout has elapsed,
\* and whenever no tick saw a new path nor mounted a candidate the wait ends by
\* returning None after the timeout, never by an exception.
C2_TimeoutIsReturnedNone ==
  /\ (pc = "side_after_wnd" /\ wndRet = None) => elapsed >= NewDriveTimeout
  /\ (WndEnded /\ ~obs.sawNew /\ ~obs.mounted)
       => (pc = "side_after_wnd" /\ wndRet = None /\ elapsed >= NewDriveTimeout)

\* C3: wait_for_drive_removal returns True iff a poll taken within the timeout
\* window saw the drive absent, and False only once the timeout has elapsed with
\* the drive present at every poll.
C3_RemovalIffAbsentPoll ==
  /\ pc = "wdr_poll" => elapsed < RemovalTimeout
  /\ pc = "side_after_wdr" =>
       /\ wdrRet <=> obs.sawAbsent
       /\ ~wdrRet => elapsed >= RemovalTimeout

\* C3 witness: the drive was seen present first and absent at a later poll.
C3_Witness ==
  /\ pc = "side_after_wdr"
  /\ wdrRet
  /\ obs.sawAbsent
  /\ elapsed > 0

\* C4: once write_firmware has seen the mount point gone after a chunk, it
\* returns success, whatever the rest of the call (the close included) does.
C4_VanishedMeansSuccess ==
  (pc = "side_after_wf" /\ obs.vanished) => wfRet

Streamed == obs.exit \in {"eof", "vanished", "error"}

C6_NoDestinationInteraction ==
  (pc = "side_after_wf" /\ obs.srcMissing) => (~wfRet /\ obs.destOps = {})

\* C6 amended: with the source missing, write_firmware fails having written
\* nothing to the destination; all it did there is the one existence query of
\* the "Destination directory exists" log line.
C6_OnlyDiagnosticQuery ==
  (pc = "side_after_wf" /\ obs.srcMissing)
    => (~wfRet /\ obs.destOps = {"exists_echo"} /\ written = 0)

\* C6 witness: a write_firmware call that found its source missing.
C6_Witness ==
  /\ pc = "side_after_wf"
  /\ obs.srcMissing
  /\ ~wfRet
  /\ wfFile = "right.uf2"

\* C7: a destination missing at validation, or a failed probe (the destination
\* vanishing during the probe included), gives failure with no image byte written.
C7_NoWriteAfterFailedChecks ==
  (pc = "side_after_wf" /\ (obs.destMissing \/ obs.probeFailed))
    => /\ ~wfRet
       /\ written = 0
       /\ obs.destOps \cap {"open", "write"} = {}

\* C7 witness: the probe failed on a destination that was there at validation
\* and is still mounted (a read-only volume).
C7_Witness ==
  /\ pc = "side_after_wf"
  /\ obs.probeFailed
  /\ ~obs.destMissing
  /\ PathExists(drive)

\* C8: when every chunk was copied, the mount point was there after each of
\* them and the copy completed without an error, write_firmware succeeds.
C8_FullCopySucceeds ==
  (pc = "side_after_wf" /\ obs.exit = "eof" /\ written = srcChunks
     /\ obs.raised = "none") => wfRet

\* C8 witness: a full copy of the largest image.
C8_Witness ==
  /\ pc = "side_after_wf"
  /\ obs.exit = "eof"
  /\ written = MaxChunks
  /\ obs.raised = "none"
  /\ wfRet

\* C9: when an image the chosen mode requires is not detected, run fails and no
\* wait_for_new_drive, mount, write_firmware or wait_for_drive_removal has run.
C9_FailFast ==
  (choice \in Modes /\ \E r \in Required(choice) : detected[r] = None)
    => /\ log = <<>>
       /\ pc \in {"cli_prepare", "cli_construct", "run_display", "done",
                  "cli_finally", "exited"}
       /\ pc = "done" => ~result

\* C9 witness: ResetAndUpdateBoth chosen with the reset image missing.
C9_Witness ==
  /\ pc = "done"
  /\ choice = "reset_and_update_both"
  /\ detected.reset_file = None
  /\ detected.left_file # None
  /\ detected.right_file # None
  /\ ~result

OnlyRight ==
  /\ detected.right_file # None
  /\ detected.left_file = None
  /\ detected.reset_file = None

\* C10: with only a right image and mode UpdateRightOnly, run does one
\* wait_for_new_drive, one write of the right image and one removal wait and
\* succeeds; it fails only if the drive did not appear or the write failed, and
\* it never writes the reset image.
C10_RightOnlyScenario ==
  (OnlyRight /\ choice = "update_right_only" /\ pc = "done")
    => /\ WritesOf("reset.uf2") = {}
       /\ result => LogCalls = <<(<<"wnd", None>>), (<<"wf", "right.uf2">>), (<<"wdr", None>>)>>
       /\ ~result => LogCalls \in {<< <<"wnd", None>> >>,
                              << <<"wnd", None>>, <<"wf", "right.uf2">> >>}

----------------------------------------------------------------------------
\* Histories of the sequencer

TwoSided == {"update_both_without_reset", "reset_and_update_both"}
StepsOf(s) == {i \in 1..Len(log) : log[i][3] = s}
LeftFailed == passes # <<>> /\ passes[1] = <<"left", "fail">>

\* C11: in the two-sided modes the left pass comes first: a step of the right
\* pass is made only after the left pass returned success; and once the left
\* pass has failed, no step of the right pass (no wait, no write) is ever made,
\* no further pass is started and run returns failure.
C11_LeftBeforeRightAndAbort ==
  mode \in TwoSided =>
    /\ passes # <<>> => passes[1][1] = "left"
    /\ StepsOf("right") # {} => passes # <<>> /\ passes[1] = <<"left", "ok">>
    /\ LeftFailed =>
         /\ StepsOf("right") = {}
         /\ Len(passes) = 1
         /\ pc \in {"done", "cli_finally", "exited"}
         /\ ~result

C11_Witness ==
  /\ mode \in TwoSided
  /\ LeftFailed
  /\ StepsOf("left") # {}
  /\ pc = "done"

\* The removal waits after the reset image of the left side that returned False.
LeftResetRemovalTimeouts ==
  {i \in 2..Len(log) : /\ log[i] = <<"wdr", None, "left", "fail">>
                       /\ log[i-1][2] = FileOf.reset_file}

\* C12: in mode reset_and_update_both, after the removal wait that follows the
\* left reset image has timed out, the next step is the wait for a drive of the
\* left side and, when that wait returns a drive, the write of the left image;
\* when that write fails, nothing follows it: no step of the right side is made
\* and run returns failure.
C12_ResetTimeoutThenMainFailure ==
  mode = "reset_and_update_both" =>
    \A i \in LeftResetRemovalTimeouts :
      /\ IF i = Len(log)
         THEN pc = "wnd_start" /\ side = "left" /\ phase = "main"
         ELSE log[i+1][1] = "wnd" /\ log[i+1][3] = "left"
      /\ (i + 1 <= Len(log) /\ log[i+1][4] = "ok") =>
           IF i + 1 = Len(log)
           THEN pc = "wf_validate" /\ side = "left" /\ wfFile = FileOf.left_file
           ELSE /\ log[i+2][1] = "wf"
                /\ log[i+2][2] = FileOf.left_file
                /\ log[i+2][3] = "left"
      /\ (i + 2 <= Len(log) /\ log[i+2][4] = "fail") =>
           /\ Len(log) = i + 2
           /\ StepsOf("right") = {}
           /\ pc \in {"run_side_ret", "done", "cli_finally", "exited"}
           /\ pc # "run_side_ret" => ~result /\ passes = <<(<<"left", "fail">>)>>

C12_Witness ==
  /\ mode = "reset_and_update_both"
  /\ pc = "done"
  /\ ~result
  /\ Len(log) = 5
  /\ 3 \in LeftResetRemovalTimeouts
  /\ log[5] = <<"wf", FileOf.left_file, "left", "fail">>

\* The calls of one pass, in the order of the code.
SidePlan(s, reset) ==
  (IF reset
   THEN <<(<<"wnd", None, s>>), (<<"wf", FileOf.reset_file, s>>), (<<"wdr", None, s>>)>>
   ELSE <<>>)
  \o <<(<<"wnd", None, s>>),
       (<<"wf", IF s = "left" THEN FileOf.left_file ELSE FileOf.right_file, s>>),
       (<<"wdr", None, s>>)>>

\* The calls of a whole run of each mode.
Plan ==
  [m \in Modes |->
     CASE m = "update_right_only" -> SidePlan("right", FALSE)
       [] m = "update_both_without_reset" -> SidePlan("left", FALSE) \o SidePlan("right", FALSE)
       [] m = "reset_and_update_both" -> SidePlan("left", TRUE) \o SidePlan("right", TRUE)]

IsStep(e) == e[1] \in {"wnd", "wf"}
OkSteps(s) == {i \in StepsOf(s) : IsStep(log[i]) /\ log[i][4] = "ok"}
NeededSteps == IF with_reset THEN 4 ELSE 2

\* C13: the waits for a drive and the writes that a run makes, the result of
\* each pass and the result of run are a function of the mode and of the
\* outcomes of those waits and writes alone; the value returned by a
\* wait_for_drive_removal call takes no part in it. The calls made are always
\* the beginning of the plan of the mode, every wait for a drive and every
\* write but the last call having succeeded; a pass succeeds exactly when all
\* its waits for a drive and writes did, and run succeeds exactly when those
\* of the whole plan did and fails exactly on a failed wait for a drive or write.
C13_RemovalResultIrrelevant ==
  mode # None =>
    /\ Len(log) <= Len(Plan[mode])
    /\ \A i \in 1..Len(log) :
         /\ <<log[i][1], log[i][2], log[i][3]>> = Plan[mode][i]
         /\ (i < Len(log) /\ IsStep(log[i])) => log[i][4] = "ok"
    /\ \A k \in 1..Len(passes) :
         passes[k][2] = "ok" <=> Cardinality(OkSteps(passes[k][1])) = NeededSteps
    /\ pc = "done" =>
         /\ result <=> /\ Len(log) = Len(Plan[mode])
                       /\ \A i \in 1..Len(log) : IsStep(log[i]) => log[i][4] = "ok"
         /\ ~result <=> IsStep(log[Len(log)]) /\ log[Len(log)][4] = "fail"

\* A run that succeeded although removal waits timed out, next to others that did not.
C13_Witness ==
  /\ mode = "reset_and_update_both"
  /\ pc = "done"
  /\ result
  /\ \E i, j \in Calls("wdr") : log[i][4] = "fail" /\ log[j][4] = "ok"

\* C14: every time wait_for_drive_removal has returned False to the sequencer,
\* after the reset image as after the side's image, the sequencer goes on with
\* the pass and prints the message that asks for a manual reconnection.
C14_TimeoutAlwaysWarned ==
  [][(pc = "side_after_wdr" /\ ~wdrRet /\ pc' # pc) =>
       /\ obs'.warned
       /\ pc' = IF phase = "reset" THEN "wnd_start" ELSE "run_side_ret"
       /\ phase # "reset" => sideRet']_vars

\* C15: once a wait_for_new_drive has returned None to the sequencer, the pass
\* has failed at that point: the wait is the last step ever made (no
\* write_firmware and no wait follows it, in this pass or in a later one), the
\* pass returns False and run returns failure.
C15_NoDriveAbortsRun ==
  \A i \in Calls("wnd") :
    log[i][4] = "fail" =>
      /\ i = Len(log)
      /\ pc \in {"run_side_ret", "done", "cli_finally", "exited"}
      /\ pc = "run_side_ret" => ~sideRet
      /\ pc # "run_side_ret" =>
           /\ ~result
           /\ passes # <<>>
           /\ passes[Len(passes)] = <<log[i][3], "fail">>

\* The second wait of a pass with reset returned None.
C15_Witness ==
  /\ pc = "done"
  /\ Len(log) = 4
  /\ log[4] = <<"wnd", None, "left", "fail">>
  /\ ~result

\* The passes a mode needs, all of them succeeded.
RequiredPasses(m) ==
  IF m = "update_right_only"
  THEN <<(<<"right", "ok">>)>>
  ELSE <<(<<"left", "ok">>), (<<"right", "ok">>)>>

\* C16: the process exits with 0 or 1, and with 0 exactly when the firmware
\* directory was prepared, all the images were found, a mode was selected and
\* every pass the mode needs succeeded; in every other case (no directory, a
\* missing image, the choice Exit, a failed pass) it exits with 1.
C16_ExitCode ==
  IF pc \in {"cli_finally", "exited"}
  THEN /\ exitCode \in {0, 1}
       /\ exitCode = 0 <=>
            /\ firmware_dir # None
            /\ DisplayOk(detected)
            /\ mode # None
            /\ passes = RequiredPasses(mode)
  ELSE exitCode = -1

C16_Witness ==
  /\ pc = "exited"
  /\ exitCode = 0
  /\ mode = "reset_and_update_both"
  /\ passes = RequiredPasses(mode)

----------------------------------------------------------------------------
\* The monitor

\* C17: after its construction the monitor changes previous_drives only in
\* the step of wait_for_new_drive that returns a drive and in the step of
\* wait_for_drive_removal that returns True, and the new value is always the
\* complete list of the drives mounted at that moment; a wait that times out,
\* a mount attempt that fails and write_firmware leave it as it is.
C17_PreviousDrivesFrame ==
  [][previous_drives' # previous_drives =>
       /\ previous_drives' = get_usb_drives
       /\ \/ pc \in {"wnd_poll", "wnd_refresh"} /\ pc' = "side_after_wnd" /\ wndRet' \in Paths
          \/ pc = "wdr_refresh" /\ pc' = "side_after_wdr" /\ wdrRet'
          \/ pc = "cli_construct"]_vars

\* The removal wait has returned True and the drive has left previous_drives.
C17_Witness ==
  /\ pc = "side_after_wdr"
  /\ wdrRet
  /\ drive \notin previous_drives
  /\ previous_drives # {}

\* C18: a mount attempt that fails never ends wait_for_new_drive: the loop
\* goes on with the next candidate and, after the last one, with the next
\* tick (half a second later), where the timeout decides; nothing is returned
\* from the mount step unless a mount succeeded. A candidate that failed to
\* mount on one tick is therefore tried again on the later ticks.
C18_FailedMountKeepsPolling ==
  [][pc = "wnd_mount" =>
       /\ pc' \in {"wnd_mount", "wnd_loop", "wnd_refresh"}
       /\ wndRet' = wndRet
       /\ (Len(obs'.tried) > Len(obs.tried) /\ ~obs'.mounted) =>
            pc' = "wnd_mount" /\ devIdx' = devIdx + 1 /\ devList' = devList
       /\ pc' = "wnd_loop" => elapsed' = elapsed + 1
       /\ pc' = "wnd_refresh" => obs'.mounted /\ mountPoint' \in Paths]_vars

\* The wait returns the mount point of a device whose mount failed on an
\* earlier tick of the same wait.
C18_Witness ==
  /\ pc = "side_after_wnd"
  /\ wndRet \in Paths
  /\ obs.mounted
  /\ CandidateAt(devList, devIdx) \in obs.failedBefore

\* C19 as stated: on a tick without a new mounted drive only the first listed
\* candidate is mount-attempted, never a second one.
C19_OnlyFirstCandidate ==
  \A k \in 1..Len(obs.tried) : k = 1 /\ obs.tried[k] = devList[1]

\* C19, amended: on a tick without a new mounted drive the listed candidates
\* are mount-attempted in the order of the list, starting with the first; a
\* further candidate is attempted on the same tick only after every earlier
\* one failed to mount, and none is attempted after one has mounted.
C19_CandidatesInOrder ==
  /\ Len(obs.tried) <= Len(devList)
  /\ \A k \in 1..Len(obs.tried) : obs.tried[k] = devList[k]
  /\ pc = "wnd_mount" => ~obs.mounted /\ Len(obs.tried) = devIdx - 1
  /\ pc = "wnd_refresh" => obs.mounted /\ Len(obs.tried) = devIdx
  /\ obs.tried # <<>> => pc \in {"wnd_mount", "wnd_refresh", "side_after_wnd"}

\* The second candidate of a tick was mounted after the first one failed.
C19_Witness ==
  /\ pc = "wnd_refresh"
  /\ Len(obs.tried) = 2
  /\ obs.tried[1] # obs.tried[2]
  /\ obs.mounted

\* C20: when a mount attempt of wait_for_new_drive succeeds, the mount point
\* handed on is the one at which that device was mounted, the call returns it,
\* and on return previous_drives is the list of the drives mounted at that
\* moment, after the mount, whatever the list was at the start of the tick.
C20_MountReturnsItsMountPoint ==
  [][/\ (pc = "wnd_mount" /\ pc' = "wnd_refresh") =>
          /\ mountPoint' = devState'[CandidateAt(devList, devIdx)]
          /\ mountPoint' \notin get_usb_drives
          /\ wndRet' = wndRet /\ previous_drives' = previous_drives
     /\ (pc = "wnd_refresh" /\ pc' # pc) =>
          /\ pc' = "side_after_wnd"
          /\ wndRet' = mountPoint
          /\ wndRet' \in Paths
          /\ previous_drives' = get_usb_drives]_vars

\* The call has returned the mount point of the device it mounted;
\* previous_drives holds it next to a drive that was mounted before.
C20_Witness ==
  /\ pc = "side_after_wnd"
  /\ obs.mounted
  /\ wndRet = devState[CandidateAt(devList, devIdx)]
  /\ wndRet \in previous_drives
  /\ previous_drives = get_usb_drives
  /\ Cardinality(previous_drives) = 2

\* C21: whatever way the lsblk query fails, get_unmounted_usb_devices returns
\* (an empty list) and wait_for_new_drive goes on to the mount loop and the
\* next tick; the query never ends the wait with an exception.
C21_QueryFailsSoft ==
  [][pc = "wnd_query" =>
       /\ pc' \in {"wnd_query", "wnd_mount"}
       /\ pc' = "wnd_mount" => devList' \in {<<>>, UnmountedFrom(1)}]_vars

----------------------------------------------------------------------------
\* The process

\* C22: a temporary directory that was made for the extraction of a bundle
\* exists until the process leaves cli and no longer when it has exited,
\* whatever the way out: a run that succeeded or failed, the choice Exit, a
\* failed extraction, the missing udisksctl.
C22_TempDirRemovedAtExit ==
  /\ pc = "exited" => temp_dir # "exists"
  /\ temp_dir = "removed" => pc = "exited"
  /\ (pc \notin {"cli_prepare", "exited"} /\ firmware_dir = "temp") => temp_dir = "exists"

\* The process has exited after an extraction that failed.
C22_Witness ==
  /\ pc = "exited"
  /\ temp_dir = "removed"
  /\ firmware_dir = None
  /\ exitCode = 1

----------------------------------------------------------------------------
\* Role detection on its own: _detect_firmware_files applied to every list of
\* up to MaxFiles different names out of FileNames.

MaxFiles == 3

FileNames == DOMAIN Spelling

FileLists ==
  UNION {{l \in [1..n -> FileNames] : \A i, j \in 1..n : i # j => l[i] # l[j]} :
         n \in 0..MaxFiles}

DetectInit ==
  /\ uf2_files \in FileLists
  /\ scan = 1
  /\ skip_reset = None
  /\ detected = [r \in Roles |-> None]
  /\ pc = "detect"
  /\ devState = [d \in Devices |-> "absent"]
  /\ previous_drives = {}
  /\ exitCode = -1
  /\ temp_dir = None
  /\ firmware_dir = "dir"
  /\ passes = <<>>
  /\ elapsed = 0
  /\ choice = None
  /\ mode = None
  /\ side = None
  /\ phase = None
  /\ drive = None
  /\ wndRet = None
  /\ wfRet = FALSE
  /\ wdrRet = FALSE
  /\ sideRet = FALSE
  /\ result = FALSE
  /\ devList = <<>>
  /\ devIdx = 1
  /\ mountPoint = None
  /\ wfFile = None
  /\ srcChunks = 0
  /\ written = 0
  /\ copy_success = FALSE
  /\ wfErr = "none"
  /\ log = <<>>
  /\ obs = NoObs

DetectNext == DetectFile \/ DetectReturn

DetectSpec == DetectInit /\ [][DetectNext]_vars

\* The first file of the list that matches the patterns of a role.
FirstMatch(role) ==
  IF \E i \in 1..Len(uf2_files) : Matches(uf2_files[i], role)
  THEN uf2_files[CHOOSE i \in 1..Len(uf2_files) :
                   /\ Matches(uf2_files[i], role)
                   /\ \A j \in 1..(i - 1) : ~Matches(uf2_files[j], role)]
  ELSE None

\* The files given to a role that is tested before role r.
TakenBefore(r) ==
  {detected[RoleOrder[j]] : j \in {k \in 1..3 : \E m \in (k + 1)..3 : RoleOrder[m] = r}} \ {None}

\* C23 as stated: every role is resolved to the first file, in the order of
\* the list, whose name matches the patterns of the role, and a file that
\* matches no pattern gets no role.
C23_FirstMatchPerRole ==
  pc = "detect_ret" =>
    /\ \A r \in Roles : detected[r] = FirstMatch(r)
    /\ \A i \in 1..Len(uf2_files) :
         (\A r \in Roles : ~Matches(uf2_files[i], r)) =>
           \A r \in Roles : detected[r] # uf2_files[i]

\* C23, amended: the files are taken in the order of the list and each file is
\* given to at most one role, the first of reset, left, right that is still
\* unresolved and whose patterns the name matches (case-insensitively,
\* anywhere in the name). So every role is resolved to the first file that
\* matches its patterns and was not given to a role tested before it, and to
\* none when there is no such file; no file has two roles; a file that matches
\* no pattern gets no role.
C23_FirstUnclaimedMatchPerRole ==
  pc = "detect_ret" =>
    /\ \A r \in Roles :
         IF \E i \in 1..Len(uf2_files) :
              Matches(uf2_files[i], r) /\ uf2_files[i] \notin TakenBefore(r)
         THEN \E i \in 1..Len(uf2_files) :
                /\ detected[r] = uf2_files[i]
                /\ Matches(uf2_files[i], r)
                /\ uf2_files[i] \notin TakenBefore(r)
                /\ \A j \in 1..(i - 1) :
                     Matches(uf2_files[j], r) => uf2_files[j] \in TakenBefore(r)
         ELSE detected[r] = None
    /\ \A r1, r2 \in Roles : (r1 # r2 /\ detected[r1] # None) => detected[r1] # detected[r2]
    /\ \A i \in 1..Len(uf2_files) :
         (\A r \in Roles : ~Matches(uf2_files[i], r)) =>
           \A r \in Roles : detected[r] # uf2_files[i]
    /\ {n \in FileNames : Matches(n, "reset_file")} = {"s_reset_x", "RESET"}
    /\ {n \in FileNames : Matches(n, "left_file")} = {"a_L_x", "a_l", "a_L_R"}
    /\ {n \in FileNames : Matches(n, "right_file")} = {"s_reset_x", "a_R_x", "a_r", "a_L_R"}

\* The list of the example, the reset image first: its name also holds "_r",
\* and the right role went to the later file.
C23_Witness ==
  /\ pc = "detect_ret"
  /\ uf2_files = <<"s_reset_x", "a_L_x", "a_R_x">>
  /\ detected.reset_file = uf2_files[1]
  /\ detected.left_file = uf2_files[2]
  /\ detected.right_file = uf2_files[3]

\* The messages of write_firmware that tell why it returned False.
WriteFailureMessages ==
  {"Source file not found", "Destination directory not found",
   "Error getting source file stats", "Destination check error",
   "UF2 file write failed"}

\* C24: when the process ends with a status other than 0, a message that
\* tells the cause has been printed before: the message of the failed
\* preparation, of the missing udisksctl, of the missing images, of the choice
\* Exit; for a wait for a drive that returned None its timeout message, for a
\* write that returned False one of the messages of write_firmware, and then
\* the message of run that the process failed; and the traceback of an
\* exception that nothing caught.
C24_FailureIsReported ==
  (pc \in {"cli_finally", "exited"} /\ exitCode # 0) =>
    /\ obs.said # {}
    /\ (log # <<>> /\ log[Len(log)][4] = "fail") =>
         /\ "Firmware write process failed" \in obs.said
         /\ log[Len(log)][1] = "wnd" => "Timeout: USB drive not detected" \in obs.said
         /\ log[Len(log)][1] = "wf" => obs.said \cap WriteFailureMessages # {}
    /\ (log # <<>> /\ log[Len(log)][4] = "pending") => "Traceback" \in obs.said
    /\ (log = <<>> /\ firmware_dir = None) =>
         obs.said \cap {"ZIP file extraction error", "not a directory or ZIP file"} # {}

\* The process has exited with 1 after a write that failed.
C24_Witness ==
  /\ pc = "exited"
  /\ exitCode = 1
  /\ log # <<>>
  /\ log[Len(log)] = <<"wf", FileOf.right_file, "right", "fail">>
  /\ "UF2 file write failed" \in obs.said

----------------------------------------------------------------------------
\* Progress

\* The steps of the program itself (everything but the outside world).
ProgramStep ==
  \/ CliPrepare \/ CliConstruct \/ CliRunReturned \/ CliUncaught \/ CliFinally
  \/ RunDisplay \/ RunMode \/ SideBegin \/ SideAfterWnd \/ SideAfterWf
  \/ SideAfterWdr \/ RunSideRet
  \/ WndStart \/ WndLoop \/ WndPoll \/ WndQuery \/ WndMount \/ WndRefresh
  \/ WdrStart \/ WdrLoop \/ WdrPoll \/ WdrRefresh
  \/ WfValidate \/ WfProbe \/ WfOpen \/ WfChunk \/ WfClose \/ WfUnwind
  \/ WfHandler \/ WfResult

\* The program is one sequential process: while it has a next statement, it
\* executes it, whatever the outside world does meanwhile.
FairSpec == Spec /\ WF_vars(ProgramStep)

\* C25: every wait returns a value when its timeout has elapsed, so once a
\* mode is selected run comes to return its result, success or failure, after
\* at most four waits for a drive and four waits for a removal.
C25_RunReturns ==
  /\ [](nWnd <= 4 /\ nWdr <= 4)
  /\ [](mode # None => <>(pc = "done"))

----------------------------------------------------------------------------
\* Writes and drives

IsOkWrite(e) == e[1] = "wf" /\ e[4] = "ok"
OkWrites == SelectSeq(log, IsOkWrite)
Image(e) == <<e[2], e[3]>>

\* The writes a successful run of a mode has made, in their order.
ExpectedWrites ==
  [m \in Modes |->
     CASE m = "update_right_only" -> <<(<<FileOf.right_file, "right">>)>>
       [] m = "update_both_without_reset" ->
            <<(<<FileOf.left_file, "left">>), (<<FileOf.right_file, "right">>)>>
       [] m = "reset_and_update_both" ->
            <<(<<FileOf.reset_file, "left">>), (<<FileOf.left_file, "left">>),
              (<<FileOf.reset_file, "right">>), (<<FileOf.right_file, "right">>)>>]

\* C26: when run has returned success, write_firmware has returned success
\* for the main image of every side of the mode, in reset_and_update_both
\* after a successful write of the reset image for that side, and the
\* successful writes were made in the order reset (left), left, reset
\* (right), right, as far as the mode has these steps; no write failed.
C26_SuccessMeansAllWrites ==
  (pc = "done" /\ result) =>
    /\ mode \in Modes
    /\ Len(OkWrites) = Len(ExpectedWrites[mode])
    /\ \A k \in 1..Len(OkWrites) : Image(OkWrites[k]) = ExpectedWrites[mode][k]
    /\ \A i \in Calls("wf") : log[i][4] = "ok"

C26_Witness ==
  /\ pc = "done"
  /\ result
  /\ mode = "reset_and_update_both"
  /\ Len(OkWrites) = 4

\* The positions of a transfer: the write of one image and the wait for the
\* removal of the drive that follows it.
TransferPcs ==
  {"wf_validate", "wf_probe", "wf_open", "wf_chunk", "wf_close", "wf_unwind",
   "wf_handler", "wf_result", "side_after_wf", "wdr_start", "wdr_loop",
   "wdr_poll", "wdr_refresh"}

\* C27: every write_firmware call of the sequencer targets the drive path the
\* most recent wait_for_new_drive returned, that wait returned a drive and no
\* other write was made since; the wait_for_drive_removal that follows watches
\* the same path; and no two calls are in progress at once.
C27_WriteTargetsFoundDrive ==
  /\ [][(pc = "side_after_wnd" /\ pc' = "wf_validate")
          => (wndRet \in Paths /\ WriteTarget' = wndRet)]_vars
  /\ [][(pc \in TransferPcs /\ pc' \in TransferPcs)
          => (WriteTarget' = WriteTarget /\ WatchedPath' = WriteTarget)]_vars
  /\ [](\A i \in 1..Len(log) :
          /\ i < Len(log) => log[i][4] # "pending"
          /\ log[i][1] = "wf" =>
               /\ i > 1
               /\ log[i - 1][1] = "wnd"
               /\ log[i - 1][4] = "ok"
               /\ log[i - 1][3] = log[i][3]
          /\ log[i][1] = "wdr" =>
               /\ i > 1
               /\ log[i - 1][1] = "wf"
               /\ log[i - 1][4] = "ok")

C27_Witness ==
  /\ pc = "wdr_poll"
  /\ WatchedPath = "p2"
  /\ nWf = 2
  /\ log[Len(log) - 1][1] = "wf"

\* C28: when wait_for_drive_removal(p) returns True, p is not in
\* previous_drives, whatever the device does during the pause between the
\* poll that saw p gone and the snapshot.
C28_RemovedDriveNotKnown ==
  (pc = "side_after_wdr" /\ wdrRet) => WatchedPath \notin previous_drives

\* The positions between the end of a write to the drive and the start of the
\* next wait for a drive of the same pass.
AfterWritePcs ==
  {"wdr_start", "wdr_loop", "wdr_poll", "wdr_refresh", "side_after_wdr",
   "wnd_start"}

\* p is mounted and is the only mounted drive, and no lsblk query raises.
StaysMounted(p) == get_usb_drives = {p} /\ pc # "crashed"

\* wait_for_new_drive has returned p.
WndReturned(p) == pc = "side_after_wnd" /\ wndRet = p

\* C29: when the volume written to at p was unmounted after the write and is
\* mounted at p again when the next wait_for_new_drive starts, and stays so,
\* this wait returns p, also after a removal wait that timed out and when the
\* absence of p fell between two polls.
C29_RemountIsDetected ==
  \A p \in Paths :
    [](( /\ pc \in AfterWritePcs
         /\ phase = "reset"
         /\ drive = p
         /\ ~PathExists(p) )
       => []((pc = "wnd_start" /\ drive = p /\ []StaysMounted(p))
               => <>WndReturned(p)))

\* C30: when write_firmware returns success, at least one chunk of the image
\* was written to the destination file; neither a "not found" error of an
\* open after the validation nor an empty image gives success.
C30_SuccessMeansWritten ==
  (pc = "side_after_wf" /\ wfRet) => written >= 1

----------------------------------------------------------------------------
\* One role per file

\* The roles, by their place in the order of the tests, that are unassigned
\* and whose patterns the name matches.
OpenRoles(name, det) ==
  {k \in 1..3 : det[RoleOrder[k]] = None /\ Matches(name, RoleOrder[k])}

\* C31: for every list of file names, role detection gives each file to at
\* most one role, so the reset, left and right images it assigns are pairwise
\* different files; a file whose name matches several pattern sets is taken by
\* the first role, in the order reset, left, right, that is still unassigned.
C31_OneRolePerFile ==
  /\ [](\A r1, r2 \in Roles :
          (r1 # r2 /\ detected[r1] # None) => detected[r1] # detected[r2])
  /\ [][(pc = "detect" /\ scan <= Len(uf2_files)) =>
          LET f == uf2_files[scan]
              open == OpenRoles(f, detected)
          IN IF open = {}
             THEN detected' = detected
             ELSE \E k \in open :
                    /\ \A j \in open : k <= j
                    /\ detected' = [detected EXCEPT ![RoleOrder[k]] = f]]_vars

\* "a_L_R" matches left and right; left was taken by the file before it, so
\* it became the right image.
C31_Witness ==
  /\ pc = "detect_ret"
  /\ uf2_files = <<"a_L_x", "a_L_R">>
  /\ detected.left_file = "a_L_x"
  /\ detected.right_file = "a_L_R"
  /\ detected.reset_file = None

----------------------------------------------------------------------------
\* The legacy entry point, main.py. Its USBMonitor, FirmwareExtractor and cli
\* and its write_firmware are those of __init__.py with other message texts
\* (and a progress line per chunk), so the actions above stand for them; its
\* FirmwareWriter looks the three images up by fixed names and its sequencer
\* has the flag skip_reset in place of the mode. The messages of the legacy
\* sequencer are not recorded.

\* The fixed names of main.py (reset_firmware, left_firmware, right_firmware),
\* spelled as sequences of characters, without the ".uf2".
LegacyNames ==
  [ reset_file |-> <<"s", "e", "t", "t", "i", "n", "g", "s", "_", "r", "e", "s", "e", "t",
                     "-", "s", "e", "e", "e", "d", "u", "i", "n", "o", "_", "x", "i", "a",
                     "o", "_", "b", "l", "e", "-", "z", "m", "k">>,
    left_file  |-> <<"r", "o", "B", "a", "_", "L",
                     "-", "s", "e", "e", "e", "d", "u", "i", "n", "o", "_", "x", "i", "a",
                     "o", "_", "b", "l", "e", "-", "z", "m", "k">>,
    right_file |-> <<"r", "o", "B", "a", "_", "R",
                     "-", "s", "e", "e", "e", "d", "u", "i", "n", "o", "_", "x", "i", "a",
                     "o", "_", "b", "l", "e", "-", "z", "m", "k">> ]

\* validate_firmware_files: all three files exist in the firmware directory.
\* detected[r] stands for the file of role r being there under its fixed name.
validate_firmware_files(det) == \A r \in Roles : det[r] # None

\* Mutant: the reset block is entered whatever the flag says.
LegacyWithReset_Mut(flag) == TRUE

\* if not self.skip_reset:
LegacyWithReset(flag) == ~flag

\* The firmware_file argument of the legacy program_keyboard_side.
LegacySideFile == IF side = "left" THEN FileOf.left_file ELSE FileOf.right_file

\* run of main.py up to the first program_keyboard_side.
LegacyRun ==
  /\ pc = "run_display"
  /\ skip_reset \in BOOLEAN
  /\ IF validate_firmware_files(detected)
     THEN /\ side' = "left"
          /\ pc' = "side_begin"
          /\ UNCHANGED result
     ELSE /\ result' = FALSE
          /\ pc' = "done"
          /\ UNCHANGED side
  /\ UNCHANGED <<optVars, detVars, cliVars, envVars, monVars, detected, choice, mode, phase,
                 drive, sideRet, retVars, wfVars, log, obs>>

\* program_keyboard_side of main.py up to its first wait_for_new_drive.
LegacySideBegin ==
  /\ pc = "side_begin"
  /\ skip_reset \in BOOLEAN
  /\ phase' = IF LegacyWithReset(skip_reset) THEN "reset" ELSE "main"
  /\ pc' = "wnd_start"
  /\ UNCHANGED <<optVars, detVars, cliVars, envVars, monVars, detected, choice, mode, side,
                 drive, sideRet, result, retVars, wfVars, log, obs>>

\* drive = wait_for_new_drive(); if not drive: return False; then the write of
\* reset_firmware or of firmware_file.
LegacySideAfterWnd ==
  /\ pc = "side_after_wnd"
  /\ skip_reset \in BOOLEAN
  /\ drive' = wndRet
  /\ wndRet' = None
  /\ elapsed' = 0
  /\ devList' = <<>>
  /\ devIdx' = 1
  /\ mountPoint' = None
  /\ IF wndRet = None
     THEN /\ sideRet' = FALSE
          /\ pc' = "run_side_ret"
          /\ UNCHANGED wfFile
     ELSE /\ wfFile' = IF phase = "reset" THEN FileOf.reset_file ELSE LegacySideFile
          /\ pc' = "wf_validate"
          /\ UNCHANGED sideRet
  /\ log' = Returned(log, wndRet # None)
  /\ obs' = [obs EXCEPT !.failedBefore = {}, !.tried = <<>>]
  /\ UNCHANGED <<optVars, detVars, cliVars, envVars, previous_drives, detected, choice, mode,
                 side, phase, result, wfRet, wdrRet, srcChunks, written, copy_success, wfErr>>

\* if not write_firmware(...): return False; then wait_for_drive_removal(drive)
LegacySideAfterWf ==
  /\ pc = "side_after_wf"
  /\ skip_reset \in BOOLEAN
  /\ wfRet' = FALSE
  /\ wfFile' = None
  /\ srcChunks' = 0
  /\ written' = 0
  /\ copy_success' = FALSE
  /\ wfErr' = "none"
  /\ IF wfRet
     THEN /\ pc' = "wdr_start"
          /\ UNCHANGED sideRet
     ELSE /\ sideRet' = FALSE
          /\ pc' = "run_side_ret"
  /\ log' = Returned(log, wfRet)
  /\ UNCHANGED <<optVars, detVars, cliVars, envVars, monVars, detected, choice, mode, side,
                 phase, drive, result, wndRet, wdrRet, obs>>

\* After reset_firmware: a False from the wait prints a warning and the pass
\* goes on. After firmware_file: the value of the wait is dropped, return True.
LegacySideAfterWdr ==
  /\ pc = "side_after_wdr"
  /\ skip_reset \in BOOLEAN
  /\ wdrRet' = FALSE
  /\ elapsed' = 0
  /\ IF phase = "reset"
     THEN /\ phase' = "main"
          /\ pc' = "wnd_start"
          /\ UNCHANGED sideRet
     ELSE /\ sideRet' = TRUE
          /\ pc' = "run_side_ret"
          /\ UNCHANGED phase
  /\ obs' = [obs EXCEPT !.warned = (phase = "reset" /\ ~wdrRet)]
  /\ log' = Returned(log, wdrRet)
  /\ UNCHANGED <<optVars, detVars, cliVars, envVars, previous_drives, devList, devIdx,
                 mountPoint, detected, choice, mode, side, drive, result, wndRet, wfRet,
                 wfVars>>

\* run of main.py: a failed side ends the run; after the left side the right one.
LegacyRunSideRet ==
  /\ pc = "run_side_ret"
  /\ skip_reset \in BOOLEAN
  /\ sideRet' = FALSE
  /\ drive' = None
  /\ phase' = None
  /\ IF ~sideRet
     THEN /\ result' = FALSE
          /\ pc' = "done"
          /\ UNCHANGED side
     ELSE IF side = "right"
     THEN /\ result' = TRUE
          /\ pc' = "done"
          /\ UNCHANGED side
     ELSE /\ side' = "right"
          /\ pc' = "side_begin"
          /\ UNCHANGED result
  /\ passes' = Append(passes, <<side, Outcome(sideRet)>>)
  /\ UNCHANGED <<optVars, detVars, exitCode, temp_dir, firmware_dir, envVars, monVars,
                 detected, choice, mode, retVars, wfVars, log, obs>>

\* The state after the construction of cli's arguments: --skip-reset given or not.
LegacyInit ==
  /\ devState \in {s \in [Devices -> {"absent", "unmounted"} \cup Paths] :
                     \A d, e \in Devices : (d # e /\ s[d] \in Paths) => s[d] # s[e]}
  /\ previous_drives = {}
  /\ pc = "cli_prepare"
  /\ exitCode = -1
  /\ temp_dir = None
  /\ firmware_dir = None
  /\ passes = <<>>
  /\ uf2_files = <<>>
  /\ scan = 1
  /\ skip_reset \in BOOLEAN
  /\ elapsed = 0
  /\ detected \in {f \in [Roles -> {None} \cup {FileOf[r] : r \in Roles}] :
                     \A r \in Roles : f[r] \in {None, FileOf[r]}}
  /\ choice = None
  /\ mode = None
  /\ side = None
  /\ phase = None
  /\ drive = None
  /\ wndRet = None
  /\ wfRet = FALSE
  /\ wdrRet = FALSE
  /\ sideRet = FALSE
  /\ result = FALSE
  /\ devList = <<>>
  /\ devIdx = 1
  /\ mountPoint = None
  /\ wfFile = None
  /\ srcChunks = 0
  /\ written = 0
  /\ copy_success = FALSE
  /\ wfErr = "none"
  /\ log = <<>>
  /\ obs = NoObs

LegacyNext ==
  \/ EnvPlug \/ EnvAutoMount \/ EnvVanish
  \/ CliPrepare \/ CliConstruct \/ CliRunReturned \/ CliUncaught \/ CliFinally
  \/ LegacyRun \/ LegacySideBegin \/ LegacySideAfterWnd \/ LegacySideAfterWf
  \/ LegacySideAfterWdr \/ LegacyRunSideRet
  \/ WndStart \/ WndLoop \/ WndPoll \/ WndQuery \/ WndMount \/ WndRefresh
  \/ WdrStart \/ WdrLoop \/ WdrPoll \/ WdrRefresh
  \/ WfValidate \/ WfProbe \/ WfOpen \/ WfChunk \/ WfClose \/ WfUnwind
  \/ WfHandler \/ WfResult

LegacySpec == LegacyInit /\ [][LegacyNext]_vars

\* The mode of __init__.py that a value of the flag corresponds to.
ModeOf(flag) == IF flag THEN "update_both_without_reset" ELSE "reset_and_update_both"

\* The name main.py uses for the image of the j-th role matches the patterns
\* of the k-th role of _detect_firmware_files.
NameMatches(j, k) ==
  \E pat \in PatternsOf[RoleOrder[k]] : Contains(LegacyNames[RoleOrder[j]], pat)

\* Detection gives each of the three fixed names its own role, in whatever
\* order they are listed: each matches its role and no role tested before it.
LegacyNamesResolve ==
  \A j \in 1..3 : NameMatches(j, j) /\ \A k \in 1..(j - 1) : ~NameMatches(j, k)

\* What the mode-driven sequencer does in mode m, as a law of the
\* call history: the calls are the beginning of the plan of m, every wait for
\* a drive and every write but the last call succeeded, and run returns
\* success exactly after the whole plan with all of them successful, failure
\* exactly after a failed wait for a drive or write.
FollowsPlan(m) ==
  /\ Len(log) <= Len(Plan[m])
  /\ \A i \in 1..Len(log) :
       /\ <<log[i][1], log[i][2], log[i][3]>> = Plan[m][i]
       /\ (i < Len(log) /\ IsStep(log[i])) => log[i][4] = "ok"
  /\ pc = "done" =>
       /\ result <=> /\ Len(log) = Len(Plan[m])
                     /\ \A i \in 1..Len(log) : IsStep(log[i]) => log[i][4] = "ok"
       /\ ~result <=> IsStep(log[Len(log)]) /\ log[Len(log)][4] = "fail"

\* The law holds of the mode-driven sequencer itself, in the two-sided modes
\* with all three images detected.
CurrentFollowsPlan ==
  (mode \in TwoSided /\ DisplayOk(detected)) => FollowsPlan(mode)

\* C32: with all three images present, main.py makes the same sequence of
\* wait_for_new_drive, write_firmware and wait_for_drive_removal calls, with
\* the same images, and returns the same result as the mode-driven sequencer
\* for the same outcomes of the calls, skip_reset=False as
\* reset_and_update_both and skip_reset=True as update_both_without_reset;
\* the three fixed names of main.py are detected in their roles.
C32_LegacyFollowsPlanOfMode ==
  /\ LegacyNamesResolve
  /\ (validate_firmware_files(detected) /\ pc \notin {"cli_prepare", "cli_construct", "run_display"})
       => FollowsPlan(ModeOf(skip_reset))

C32_Witness ==
  /\ pc = "done"
  /\ result
  /\ skip_reset = FALSE
  /\ Len(log) = 12
  /\ \E i \in 1..Len(log) : log[i][1] = "wdr" /\ log[i][4] = "fail"

====
